---- MODULE Spec2Model ----
(***************************************************************************)
(* Quiz generation, retrieval and submission of the TestWiz backend.       *)
(* The backend exists in two variants (hosted provider keyed per user,     *)
(* self-hosted Ollama endpoint); both are modelled, selected by `variant`. *)
(* Every HTTP handler is one atomic action; the provider, the OCR service  *)
(* and the database's failures are the environment and are drawn with \E.  *)
(***************************************************************************)
EXTENDS Integers, Sequences, FiniteSets, TLC

VARIABLES
    variant,    \* which backend file is running: "hosted" or "ollama"
    api_keys,   \* table api_keys: set of rows [user_id, encrypted_key, api_type]
    quizzes,    \* table quizzes: sequence of rows [id, user_id, quiz_type, questions]
    results,    \* table results: sequence of rows [id, user_id, quiz_id, score, feedback]
    uploads,    \* files present in the uploads directory
    uuidCount,  \* number of uuidv4() values that became observable so far
    last,       \* the last request handled and the response it got
    keyRequests \* the set-api-key requests whose statement was queued: set of
                \* [id, user_id, key, type, phase]

vars == <<variant, api_keys, quizzes, results, uploads, uuidCount, last, keyRequests>>

(*************************** bounds of the model ***************************)
NumUsers == 2        \* authenticated users 1..NumUsers
MaxQuizzes == 1      \* rows the quizzes table may hold
MaxResults == 1      \* rows the results table may hold
MaxQuestions == 2    \* questions the provider returns for one request, in total
Den == 2             \* JSON numbers are multiples of 1/Den
MaxText == 3
MaxKeyRequests == 3         \* characters of a text given to a text function

(**************************** program constants ****************************)
MaxSingle == 20      \* cap of /generate-quiz and /descriptive-quiz
MaxCombined == 30    \* cap of /combined-exam
ExcerptLen == 100    \* characters of the raw response quoted in a message
MaxScore == 10       \* points of one question

Users == 1..NumUsers
Min(a, b) == IF a < b THEN a ELSE b
Max(a, b) == IF a > b THEN a ELSE b

(***************************************************************************)
(* JSON / JavaScript values.  A number n is kept as the integer n * Den.   *)
(***************************************************************************)
Undef == [t |-> "undefined"]
JNull == [t |-> "null"]
Str(s) == [t |-> "string", s |-> s]
Num(h) == [t |-> "number", h |-> h]
Arr(a) == [t |-> "array", a |-> a]
Whole(n) == Num(n * Den)

IsString(v) == v.t = "string"
IsNumber(v) == v.t = "number"
IsArray(v) == v.t = "array"

\* JavaScript truthiness of a value
Truthy(v) ==
    CASE v.t = "undefined" -> FALSE
      [] v.t = "null" -> FALSE
      [] v.t = "string" -> v.s # <<>>
      [] v.t = "number" -> v.h # 0
      [] OTHER -> TRUE

(***************************************************************************)
(* Text is a sequence of characters.  Characters that have no printable    *)
(* form are written by name: LF (\n), CR (\r), TAB (\t), NBSP (U+00A0),   *)
(* ZWSP (U+200B), LSEP (U+2028), PSEP (U+2029), BOM (U+FEFF), SOH (\x01),  *)
(* DEL (\x7F).                                                            *)
(***************************************************************************)
\* [\n\r]
Newlines == {"LF", "CR"}
\* [\u00A0\u200B-\u200F\u2028\u2029\uFEFF]
Separators == {"NBSP", "ZWSP", "LSEP", "PSEP", "BOM"}
\* the class \s of a JavaScript regular expression, which is also what trim() strips
Whitespace == {" ", "TAB", "LF", "CR", "NBSP", "LSEP", "PSEP", "BOM"}
\* [\x00-\x1F\x7F]
Controls == {"SOH", "TAB", "LF", "CR", "DEL"}
IsWhitespace(c) == c \in Whitespace

RECURSIVE MapChars(_, _, _)
\* text.replace(/[class]/g, ' ') for the class given by the set `cls`
MapChars(text, cls, to) ==
    IF text = <<>> THEN <<>>
    ELSE <<IF Head(text) \in cls THEN to ELSE Head(text)>> \o MapChars(Tail(text), cls, to)

RECURSIVE DropChars(_, _)
\* text.replace(/[class]/g, '')
DropChars(text, cls) ==
    IF text = <<>> THEN <<>>
    ELSE (IF Head(text) \in cls THEN <<>> ELSE <<Head(text)>>) \o DropChars(Tail(text), cls)

RECURSIVE CollapseWhitespace(_)
\* text.replace(/\s+/g, ' ')
CollapseWhitespace(text) ==
    IF text = <<>> THEN <<>>
    ELSE IF IsWhitespace(Head(text))
         THEN IF Len(text) > 1 /\ IsWhitespace(text[2])
              THEN CollapseWhitespace(Tail(text))
              ELSE <<" ">> \o CollapseWhitespace(Tail(text))
         ELSE <<Head(text)>> \o CollapseWhitespace(Tail(text))

RECURSIVE TrimStart(_)
TrimStart(text) ==
    IF text # <<>> /\ IsWhitespace(Head(text)) THEN TrimStart(Tail(text)) ELSE text

RECURSIVE TrimEnd(_)
TrimEnd(text) ==
    IF text # <<>> /\ IsWhitespace(text[Len(text)])
    THEN TrimEnd(SubSeq(text, 1, Len(text) - 1))
    ELSE text

\* String.prototype.trim
Trim(text) == TrimEnd(TrimStart(text))

\* cleanText of generateQuizWithAI, on a string
cleanString(text) ==
    LET s1 == MapChars(text, Newlines, " ")
        s2 == MapChars(s1, Separators, " ")
        s3 == Trim(CollapseWhitespace(s2))
    IN  DropChars(s3, Controls)

\* cleanText: non-strings are returned as they are
cleanText(v) == IF IsString(v) THEN Str(cleanString(v.s)) ELSE v

UpperChar(c) ==
    CASE c = "a" -> "A" [] c = "b" -> "B" [] c = "c" -> "C" [] OTHER -> c
LowerChar(c) ==
    CASE c = "A" -> "a" [] c = "B" -> "b" [] c = "C" -> "c" [] OTHER -> c

RECURSIVE toUpperCase(_)
toUpperCase(text) ==
    IF text = <<>> THEN <<>> ELSE <<UpperChar(Head(text))>> \o toUpperCase(Tail(text))

RECURSIVE toLowerCase(_)
toLowerCase(text) ==
    IF text = <<>> THEN <<>> ELSE <<LowerChar(Head(text))>> \o toLowerCase(Tail(text))

RECURSIVE BeforeFirstDot(_)
\* text.split('.')[0]
BeforeFirstDot(text) ==
    IF text = <<>> \/ Head(text) = "." THEN <<>>
    ELSE <<Head(text)>> \o BeforeFirstDot(Tail(text))

(***************************************************************************)
(* Questions.  A question object carries the six keys the code reads; a    *)
(* key whose value is Undef is absent from the JSON text.                  *)
(***************************************************************************)
Question(id, question, type, options, answer, explanation) ==
    [t |-> "object", id |-> id, question |-> question, type |-> type,
     options |-> options, answer |-> answer, explanation |-> explanation]

T(s) == Str(<<s>>)      \* a one-word text

\* what the provider may put in its `questions` array
RawQuestions == {
    \* a well-formed MCQ question
    Question(T("q1"), Str(<<"Q", "LF", "x">>), T("MCQ"),
             Arr(<<Str(<<"A", ".", " ", "a">>), Str(<<"C", ".", "NBSP", "c">>)>>),
             Str(<<"C", ".", " ", "c">>), T("e")),
    \* a FIB question that repeats the id q1
    Question(T("q1"), T("Q"), T("FIB"), Undef, Str(<<" ", "a", "SOH">>), Undef),
    \* a Descriptive question without an id
    Question(Undef, T("Q"), T("Descriptive"), Undef, T("a"), T("e")),
    \* an MCQ question with a numeric id, an answer that is no string and options
    \* that are no array
    Question(Whole(7), T("Q"), T("MCQ"), T("x"), Whole(3), Undef)
}

RECURSIVE SeqsUpTo(_, _)
\* the sequences over S of length 0..n
SeqsUpTo(S, n) ==
    IF n = 0 THEN {<<>>}
    ELSE LET shorter == SeqsUpTo(S, n - 1)
         IN  shorter \cup {Append(q, x) : q \in {r \in shorter : Len(r) = n - 1}, x \in S}

\* The parse of the provider's (fence-stripped) text: NotJson when JSON.parse
\* throws, else the value.
NotJson == [t |-> "notjson"]
QuizDoc(questions) == [t |-> "object", questions |-> questions]
\* a question of a type that the grading loop does not know
EssayQuestion == Question(T("q9"), T("Q"), T("Essay"), Undef, T("a"), Undef)

\* the provider's documents: null, an object without `questions`, the arrays of
\* at most one entry, null included, the arrays of questions, and two arrays
\* with a question of an unknown type
GenDocs ==
    {JNull, QuizDoc(Undef)}
    \cup {QuizDoc(Arr(b)) : b \in SeqsUpTo(RawQuestions \cup {JNull}, 1)}
    \cup {QuizDoc(Arr(b)) : b \in SeqsUpTo(RawQuestions, MaxQuestions)}
    \cup {QuizDoc(Arr(<<EssayQuestion>>)),
          QuizDoc(Arr(<<CHOOSE q \in RawQuestions : q.type = T("MCQ") /\ IsString(q.answer),
                        EssayQuestion>>))}

\* the raw texts differ in their length only: shorter and longer than the excerpt
ShortLen == ExcerptLen - 60
LongLen == ExcerptLen + 150

\* what one provider call does: it throws, or it returns a text
Throws(why) == [kind |-> "throw", why |-> why]
Text(len, doc) == [kind |-> "text", len |-> len, doc |-> doc]
GenOutcomes ==
    {Throws(w) : w \in {"auth", "network"}}
    \cup {Text(n, NotJson) : n \in {ShortLen, LongLen}}
    \cup {Text(LongLen, d) : d \in GenDocs}

\* number of questions an outcome carries
OutcomeSize(out) ==
    IF out.kind = "text" /\ out.doc.t = "object" /\ IsArray(out.doc.questions)
    THEN Len(out.doc.questions.a) ELSE 0

RECURSIVE MapSeq(_, _)
MapSeq(Op(_), seq) ==
    IF seq = <<>> THEN <<>> ELSE <<Op(Head(seq))>> \o MapSeq(Op, Tail(seq))

\* the cleaning step of generateQuizWithAI, for one question object
cleanQuestion(q) ==
    [q EXCEPT !.question = cleanText(q.question),
              !.answer = cleanText(q.answer),
              !.explanation = cleanText(q.explanation),
              !.options = IF IsArray(q.options)
                          THEN Arr(MapSeq(cleanText, q.options.a))
                          ELSE q.options]

\* String(v) of a truthy value
ToText(v) ==
    CASE v.t = "string" -> v.s
      [] v.t = "number" -> IF v.h % Den = 0 THEN <<ToString(v.h \div Den)>>
                           ELSE <<ToString(v.h) \o "/" \o ToString(Den)>>
      [] v.t = "array" -> IF v.a = <<>> THEN <<>> ELSE <<"[array]">>
      [] OTHER -> <<"[object Object]">>

\* the n-th uuidv4() of the process
uuidv4(n) == <<"uuid#" \o ToString(n)>>

\* id: q.id ? String(q.id) : uuidv4()
assignId(q, n) == [q EXCEPT !.id = IF Truthy(q.id) THEN Str(ToText(q.id)) ELSE Str(uuidv4(n))]

RECURSIVE assignIds(_, _)
\* an id step that keeps the first question only
assignIdsToFirst(qs, n) ==
    IF qs = <<>> THEN <<>> ELSE <<assignId(Head(qs), n + 1)>>

\* the id step over the array; n uuids were drawn before
assignIds(qs, n) ==
    IF qs = <<>> THEN <<>>
    ELSE <<assignId(Head(qs), n + 1)>>
         \o assignIds(Tail(qs), IF Truthy(Head(qs).id) THEN n ELSE n + 1)

RECURSIVE CountUuids(_)
CountUuids(qs) ==
    IF qs = <<>> THEN 0
    ELSE (IF Truthy(Head(qs).id) THEN 0 ELSE 1) + CountUuids(Tail(qs))

\* a shape check that lets an empty array pass
validShapeOrEmpty(doc) ==
    /\ doc.t = "object"
    /\ IsArray(doc.questions)

\* the shape check: a `questions` array with at least one entry
validShape(doc) ==
    /\ doc.t = "object"
    /\ IsArray(doc.questions)
    /\ Len(doc.questions.a) # 0

(***************************************************************************)
(* generateQuizWithAI.  The result is [ok, questions, error]; `n` is the   *)
(* number of uuids drawn before the call.  An error is [kind, shown]:      *)
(* shown is the number of characters of the raw text in the message.       *)
(***************************************************************************)
GenFail(kind, shown) ==
    [ok |-> FALSE, questions |-> <<>>, uuids |-> 0, error |-> [kind |-> kind, shown |-> shown]]
\* the questions of a successful generation and the number of uuids it drew
GenOk(qs, uuids) ==
    [ok |-> TRUE, questions |-> qs, uuids |-> uuids, error |-> [kind |-> "none", shown |-> 0]]

\* the message of the format error: the hosted variant appends the raw text
formatErrorShown(v, out) == IF v = "hosted" THEN out.len ELSE 0

generateQuizWithAI(v, out, n) ==
    IF out.kind = "throw"
    THEN GenFail(IF v = "hosted" /\ out.why = "auth" THEN "InvalidKey" ELSE "ApiError", 0)
    ELSE IF out.doc = NotJson
         THEN GenFail("Malformed", Min(out.len, ExcerptLen))
    ELSE IF ~validShape(out.doc)
         THEN GenFail("Malformed", Max(formatErrorShown(v, out), Min(out.len, ExcerptLen)))
    ELSE IF \E i \in 1..Len(out.doc.questions.a) : out.doc.questions.a[i] = JNull
         THEN GenFail("Malformed", Min(out.len, ExcerptLen))
    ELSE GenOk(assignIds(MapSeq(cleanQuestion, out.doc.questions.a), n),
               CountUuids(out.doc.questions.a))

\* uuids the process can have drawn before a request
MaxUuids == MaxQuizzes * (MaxQuestions + 1) + MaxResults + MaxQuestions

\* generateQuizWithAI over the provider's answers, tabulated
generated ==
    [v \in {"hosted", "ollama"}, out \in GenOutcomes, n \in 0..MaxUuids |->
        generateQuizWithAI(v, out, n)]

(***************************************************************************)
(* Request fields.  parseInt(x, 10) of a JSON number truncates it towards  *)
(* zero; of null, undefined and a string without leading digits it is NaN. *)
(***************************************************************************)
NaN == [nan |-> TRUE, n |-> 0]
Parsed(n) == [nan |-> FALSE, n |-> n]

parseInt(v) ==
    IF IsNumber(v)
    THEN Parsed(IF v.h >= 0 THEN v.h \div Den ELSE -((-v.h) \div Den))
    ELSE NaN

\* parseInt(x, 10) || 0
parseIntOrZero(v) == IF parseInt(v).nan THEN 0 ELSE parseInt(v).n

\* values of num_questions a client may send
CountInputs ==
    {Undef, JNull, T("abc"), Whole(-1), Whole(0), Whole(1),
     Whole(MaxSingle), Whole(MaxSingle + 1), Num(MaxSingle * Den + 1), Num(1)}

\* values of num_questions a client may send to /descriptive-quiz
DescriptiveInputs ==
    {Undef, Whole(0), Whole(1), Whole(MaxSingle), Whole(MaxSingle + 1), Num(MaxSingle * Den + 1)}

\* values of <<quiz_type, num_questions>> a client may send to /generate-quiz;
\* an empty quiz_type stands for any missing field
GenerateInputs ==
    {<<"MCQ", c>> : c \in CountInputs} \cup {<<"FIB", Whole(2)>>, <<"", Whole(1)>>}

\* values of <<num_mcq, num_fib, num_descriptive>> a client may send
CombinedInputs ==
    {<<Whole(1), Whole(0), Whole(0)>>, <<Whole(0), Whole(1), Whole(1)>>,
     <<Whole(10), Whole(10), Whole(10)>>, <<Whole(10), Whole(10), Whole(11)>>,
     <<Whole(0), Whole(0), Whole(0)>>, <<Whole(-1), Whole(2), Whole(0)>>,
     <<Whole(-1), Whole(0), Whole(0)>>, <<T("abc"), JNull, Whole(2)>>,
     <<Undef, Whole(1), Whole(1)>>, <<Whole(MaxCombined), Whole(0), Whole(1)>>,
     <<Num(MaxCombined * Den + 1), Whole(0), Whole(0)>>}

\* /generate-quiz: isNaN(n) || n <= 0 || n > 20
invalidCount(p) == p.nan \/ p.n <= 0 \/ p.n > MaxSingle

\* /descriptive-quiz: isNaN(n) || n < 1 || n > 20
invalidDescriptiveCount(p) == p.nan \/ p.n < 1 \/ p.n > MaxSingle

\* totalQuestions <= 0 || totalQuestions > 30
invalidTotal(total) == total <= 0 \/ total > MaxCombined

(***************************************************************************)
(* The tables.                                                             *)
(***************************************************************************)
\* SELECT ... FROM api_keys WHERE user_id = ?
hasKey(u) == \E r \in api_keys : r.user_id = u

\* a generation that goes on without the caller's key row
keyNeverMissing(u) == FALSE

\* the hosted variant needs the caller's key row before it calls the provider
keyMissing(u) == variant = "hosted" /\ ~hasKey(u)

\* a plain INSERT into a table without the UNIQUE constraint
insertKey(u, key, type) ==
    api_keys \cup {[user_id |-> u, encrypted_key |-> key, api_type |-> type]}

\* INSERT OR REPLACE INTO api_keys (user_id, encrypted_key, api_type)
upsertKey(u, key, type) ==
    {r \in api_keys : r.user_id # u}
    \cup {[user_id |-> u, encrypted_key |-> key, api_type |-> type]}

\* a query that forgets the owner: WHERE id = ?
quizWithId(u, qid) == {i \in 1..Len(quizzes) : quizzes[i].id = qid}

\* SELECT ... FROM quizzes WHERE id = ? AND user_id = ?
ownedQuiz(u, qid) == {i \in 1..Len(quizzes) : quizzes[i].id = qid /\ quizzes[i].user_id = u}

QuizRow(id, u, quiz_type, questions) ==
    [id |-> id, user_id |-> u, quiz_type |-> quiz_type, questions |-> questions]

\* ids a client may ask for: those of the stored quizzes and one that no quiz has
QuizIds == {quizzes[i].id : i \in 1..Len(quizzes)} \cup {<<"no-such-quiz">>}

(***************************************************************************)
(* Responses.  `last` keeps the request, the provider calls it issued (the *)
(* requested type and count of each) and the response.                     *)
(***************************************************************************)
Response(op, u, arg, calls, status, body) ==
    [op |-> op, user |-> u, arg |-> arg, calls |-> calls, status |-> status, body |-> body]

\* a provider call the request issued: what it asked for and whether it succeeded
Call(type, n, ok) == [type |-> type, n |-> n, ok |-> ok]

Error(msg) == [error |-> msg, shown |-> 0]
ErrorShowing(msg, shown) == [error |-> msg, shown |-> shown]

NoRequest == Response("none", 0, <<>>, <<>>, 0, Error(""))

(***************************************************************************)
(* POST /set-api-key (hosted variant only)                                 *)
(***************************************************************************)
\* values of <<apiKey, apiType>> a client may send
KeyInputs == {<<"", "Gemini">>, <<"k1", "Other">>, <<"k1", "Gemini">>}

SetApiKey ==
    \E u \in Users, input \in KeyInputs :
        LET key == input[1]
            type == input[2]
        IN
        /\ variant = "hosted"
        /\ IF key = ""
           THEN /\ last' = Response("set-api-key", u, <<key, type>>, <<>>, 400,
                                    Error("API key is required."))
                /\ UNCHANGED api_keys
           ELSE IF type \notin {"Gemini", "OpenAI"}
           THEN /\ last' = Response("set-api-key", u, <<key, type>>, <<>>, 400,
                                    Error("Valid API type (Gemini or OpenAI) is required."))
                /\ UNCHANGED api_keys
           ELSE /\ api_keys' = upsertKey(u, key, type)
                /\ last' = Response("set-api-key", u, <<key, type>>, <<>>, 200, Error(""))
        /\ UNCHANGED <<variant, keyRequests, quizzes, results, uploads, uuidCount>>

(***************************************************************************)
(* Single-type generation: POST /generate-quiz and POST /descriptive-quiz  *)
(***************************************************************************)
\* the row a successful generation inserts, and the response with its id
insertQuiz(op, u, arg, calls, quiz_type, questions, uuids) ==
    LET quizId == uuidv4(uuidCount + uuids + 1)
    IN  /\ quizzes' = Append(quizzes, QuizRow(quizId, u, quiz_type, questions))
        /\ uuidCount' = uuidCount + uuids + 1
        /\ last' = Response(op, u, arg, calls, 200, [error |-> "", shown |-> 0, quizId |-> quizId])

\* a handler that inserts the row first and leaves it behind when it fails
rejectAfterInsert(op, u, arg, calls, status, body) ==
    /\ last' = Response(op, u, arg, calls, status, body)
    /\ quizzes' = Append(quizzes, QuizRow(uuidv4(uuidCount + 1), u, "MCQ", <<>>))
    /\ uuidCount' = uuidCount + 1

\* a response that leaves the tables as they are
reject(op, u, arg, calls, status, body) ==
    /\ last' = Response(op, u, arg, calls, status, body)
    /\ UNCHANGED <<quizzes, uuidCount>>

\* The provider's answers a valid request meets.  The handlers pass the count on
\* in the prompt only, so every answer is explored for a request of one question
\* and one success and one failure for the other accepted counts.
FewOutcomes ==
    {Throws("network"), Text(LongLen, QuizDoc(Arr(<<CHOOSE q \in RawQuestions : q.type = T("Descriptive")>>)))}

OutcomesFor(n) == IF n = 1 THEN GenOutcomes ELSE FewOutcomes

GenerateQuiz ==
    \E u \in Users, input \in GenerateInputs :
        LET op == "generate-quiz"
            quiz_type == input[1]
            num == input[2]
            arg == input
            n == parseInt(num)
        IN  /\ Len(quizzes) < MaxQuizzes
            /\ IF quiz_type = "" \/ num = Undef
               THEN reject(op, u, arg, <<>>, 400, Error("Missing required quiz parameters."))
               ELSE IF invalidCount(n)
               THEN reject(op, u, arg, <<>>, 400,
                           Error("Number of questions must be a positive number between 1 and 20."))
               ELSE IF keyMissing(u)
               THEN reject(op, u, arg, <<>>, 404, Error("AI connection details not found"))
               ELSE \E out \in OutcomesFor(n.n) :
                      LET r == generated[variant, out, uuidCount]
                          calls == <<Call(quiz_type, n.n, r.ok)>>
                      IN  IF ~r.ok
                          THEN reject(op, u, arg, calls, 500,
                                      ErrorShowing(r.error.kind, r.error.shown))
                          ELSE \E saveErr \in BOOLEAN :
                                 IF saveErr
                                 THEN reject(op, u, arg, calls, 500,
                                             Error("Failed to save generated quiz."))
                                 ELSE insertQuiz(op, u, arg, calls, quiz_type, r.questions, r.uuids)
            /\ UNCHANGED <<variant, keyRequests, api_keys, results, uploads>>

\* the error body of /descriptive-quiz for a failed generation
descriptiveError(err) ==
    IF variant = "hosted"
    THEN IF err.kind = "InvalidKey" THEN Error("Invalid API key") ELSE Error("Quiz generation failed")
    ELSE ErrorShowing("Quiz generation failed: " \o err.kind, err.shown)

DescriptiveQuiz ==
    \E u \in Users, num \in DescriptiveInputs :
        LET op == "descriptive-quiz"
            arg == <<"Descriptive", num>>
            n == parseInt(num)
        IN  /\ Len(quizzes) < MaxQuizzes
            /\ IF num = Undef
               THEN reject(op, u, arg, <<>>, 400, Error("Missing required parameters"))
               ELSE IF invalidDescriptiveCount(n)
               THEN reject(op, u, arg, <<>>, 400, Error("Invalid question count (1-20)"))
               ELSE IF keyMissing(u)
               THEN reject(op, u, arg, <<>>, 404, Error("API key not found"))
               ELSE \E out \in OutcomesFor(n.n) :
                      LET r == generated[variant, out, uuidCount]
                          calls == <<Call("Descriptive", n.n, r.ok)>>
                      IN  IF ~r.ok
                          THEN reject(op, u, arg, calls, 500, descriptiveError(r.error))
                          ELSE \E saveErr \in BOOLEAN :
                                 IF saveErr
                                 THEN reject(op, u, arg, calls, 500,
                                             descriptiveError([kind |-> "SQLITE_ERROR", shown |-> 0]))
                                 ELSE insertQuiz(op, u, arg, calls, "Descriptive", r.questions, r.uuids)
            /\ UNCHANGED <<variant, keyRequests, api_keys, results, uploads>>

(***************************************************************************)
(* POST /combined-exam                                                     *)
(***************************************************************************)
\* the sub-calls the handler issues, in its order: those with a count > 0
subCalls(nums) ==
    LET types == <<"MCQ", "FIB", "Descriptive">>
        F[i \in 0..3] ==
            IF i = 0 THEN <<>>
            ELSE IF parseIntOrZero(nums[i]) > 0
                 THEN Append(F[i - 1], [type |-> types[i], n |-> parseIntOrZero(nums[i])])
                 ELSE F[i - 1]
    IN  F[3]

totalQuestions(nums) ==
    parseIntOrZero(nums[1]) + parseIntOrZero(nums[2]) + parseIntOrZero(nums[3])

RECURSIVE concatBatches(_, _, _)
\* allQuestions after the sub-calls with outcomes `outs`: a failed sub-call is
\* logged and skipped; n uuids were drawn before
concatBatches(v, outs, n) ==
    IF outs = <<>> THEN <<>>
    ELSE LET r == generated[v, Head(outs), n]
         IN  IF r.ok
             THEN r.questions \o concatBatches(v, Tail(outs), n + r.uuids)
             ELSE concatBatches(v, Tail(outs), n)

RECURSIVE uuidsDrawn(_, _, _)
\* the uuids the sub-calls drew
uuidsDrawn(v, outs, n) ==
    IF outs = <<>> THEN 0
    ELSE generated[v, Head(outs), n].uuids
         + uuidsDrawn(v, Tail(outs), n + generated[v, Head(outs), n].uuids)

\* the calls with their success and with the questions array the provider
\* returned to each (none when the call failed), for `last`
callLog(v, calls, outs) ==
    [i \in 1..Len(calls) |->
        [type |-> calls[i].type, n |-> calls[i].n, ok |-> generated[v, outs[i], 0].ok,
         returned |-> IF generated[v, outs[i], 0].ok THEN outs[i].doc.questions.a ELSE <<>>]]

RECURSIVE SumSizes(_)
SumSizes(outs) == IF outs = <<>> THEN 0 ELSE OutcomeSize(Head(outs)) + SumSizes(Tail(outs))

\* In the combined handler every failure of a sub-call is caught the same way, so
\* its sub-calls draw from one failure and from batches of accepted questions.
SubOutcomes ==
    {Throws("network")}
    \cup {Text(LongLen, QuizDoc(Arr(<<q>>))) : q \in {r \in RawQuestions : ~IsNumber(r.id)}}
    \cup {Text(LongLen, QuizDoc(Arr(<<q, q>>))) : q \in {r \in RawQuestions : r.type = T("MCQ") /\ r.id = T("q1")}}

OutcomeSeqs1 == {outs \in [1..1 -> SubOutcomes] : SumSizes(outs) <= MaxQuestions}
OutcomeSeqs2 == {outs \in [1..2 -> SubOutcomes] : SumSizes(outs) <= MaxQuestions}
OutcomeSeqs3 == {outs \in [1..3 -> SubOutcomes] : SumSizes(outs) <= MaxQuestions}

\* the outcomes of k sub-calls that carry at most MaxQuestions questions in total
OutcomeSeqs(k) ==
    CASE k = 1 -> OutcomeSeqs1 [] k = 2 -> OutcomeSeqs2 [] k = 3 -> OutcomeSeqs3
      [] OTHER -> {<<>>}

\* the permutations of a sequence
Shuffles(seq) ==
    {[i \in 1..Len(seq) |-> seq[f[i]]] :
        f \in {g \in [1..Len(seq) -> 1..Len(seq)] :
                  \A i, j \in 1..Len(seq) : i # j => g[i] # g[j]}}

\* the Ollama variant shuffles: allQuestions.sort(() => Math.random() - 0.5)
finalOrders(v, qs) == IF v = "ollama" THEN Shuffles(qs) ELSE {qs}

\* a request that fails as soon as questions are missing
generationIncomplete(allQuestions, total) == Len(allQuestions) < total

\* the combined request fails when no sub-call delivered a question
generationFailed(allQuestions, total) == Len(allQuestions) = 0 /\ total > 0

CombinedExam ==
    \E u \in Users, nums \in CombinedInputs :
        LET op == "combined-exam"
            total == totalQuestions(nums)
        IN  /\ Len(quizzes) < MaxQuizzes
            /\ IF \E i \in 1..3 : nums[i] = Undef
               THEN reject(op, u, nums, <<>>, 400,
                           Error("Missing required combined exam parameters."))
               ELSE IF invalidTotal(total)
               THEN reject(op, u, nums, <<>>, 400,
                           Error("Total number of questions must be positive and not exceed 30."))
               ELSE IF keyMissing(u)
               THEN reject(op, u, nums, <<>>, 404, Error("AI connection details not found"))
               ELSE \E outs \in OutcomeSeqs(Len(subCalls(nums))) :
                      LET allQuestions == concatBatches(variant, outs, uuidCount)
                          calls == callLog(variant, subCalls(nums), outs)
                      IN  IF generationFailed(allQuestions, total)
                          THEN reject(op, u, nums, calls, 500,
                                      Error("AI failed to generate questions for the combined exam."))
                          ELSE \E saveErr \in BOOLEAN :
                                 IF saveErr
                                 THEN reject(op, u, nums, calls, 500,
                                             Error("Failed to save generated combined exam."))
                                 ELSE \E order \in finalOrders(variant, allQuestions) :
                                        insertQuiz(op, u, nums, calls, "Combined", order,
                                                   uuidsDrawn(variant, outs, uuidCount))
            /\ UNCHANGED <<variant, keyRequests, api_keys, results, uploads>>

(***************************************************************************)
(* GET /quiz/:quizId                                                       *)
(***************************************************************************)
\* one question as the quiz-taker gets it
\* a redaction that forgets to strip the answer
redactKeepingAnswer(q) ==
    [q EXCEPT !.explanation = Undef,
              !.options = IF Truthy(q.options) THEN q.options ELSE Arr(<<>>)]

redact(q) ==
    [q EXCEPT !.answer = Undef,
              !.explanation = Undef,
              !.options = IF Truthy(q.options) THEN q.options ELSE Arr(<<>>)]

NotFound == Error("Quiz not found or you do not have permission to view it.")

GetQuiz ==
    \E u \in Users, qid \in QuizIds :
        /\ IF ownedQuiz(u, qid) = {}
           THEN last' = Response("get-quiz", u, qid, <<>>, 404, NotFound)
           ELSE LET row == quizzes[CHOOSE i \in ownedQuiz(u, qid) : TRUE]
                IN  last' = Response("get-quiz", u, qid, <<>>, 200,
                                     [id |-> row.id, quiz_type |-> row.quiz_type,
                                      questions |-> MapSeq(redact, row.questions)])
        /\ UNCHANGED <<variant, keyRequests, api_keys, quizzes, results, uploads, uuidCount>>

(***************************************************************************)
(* Descriptive grading.  The grader's text either is no JSON or parses to  *)
(* null or to an object with the four fields; a score is stored in units   *)
(* of 1/Den like every number.                                             *)
(***************************************************************************)
NA == Str(<<"N/A">>)

EvalDoc(score, feedback, correct_parts, improvements) ==
    [t |-> "object", score |-> score, feedback |-> feedback,
     correct_parts |-> correct_parts, improvements |-> improvements]

\* the grader's answers: no answer, text that is no JSON, a complete evaluation
\* with a score inside, above and between the whole points of the scale, and an
\* evaluation that lacks its feedback
EvalOutcomes ==
    {Throws("network"), Text(LongLen, NotJson),
     Text(ShortLen, EvalDoc(Whole(7), T("f"), T("c"), T("i"))),
     Text(ShortLen, EvalDoc(Whole(MaxScore + 5), T("f"), T("c"), T("i"))),
     Text(ShortLen, EvalDoc(Num(7 * Den + 1), T("f"), T("c"), T("i"))),
     Text(ShortLen, EvalDoc(Whole(MaxScore + 5), Undef, T("c"), T("i")))}

Evaluation(score, feedback, correct_parts, improvements) ==
    [score |-> score, feedback |-> feedback,
     correct_parts |-> correct_parts, improvements |-> improvements]

\* the four fields with the types the validation asks for
wellTyped(doc) ==
    /\ doc # JNull
    /\ IsNumber(doc.score)
    /\ IsString(doc.feedback)
    /\ IsString(doc.correct_parts)
    /\ IsString(doc.improvements)

\* Math.max(0, Math.min(10, score))
clampScore(score) == Num(Max(0, Min(MaxScore * Den, score.h)))

\* a partial object that copies the fields whatever their types
partialEvaluationUnchecked(doc) ==
    LET field(name) == IF doc = JNull THEN Undef ELSE doc[name]
    IN  Evaluation(field("score"), field("feedback"),
                   field("correct_parts"), field("improvements"))

\* the minimal object built when the validation fails
partialEvaluation(doc) ==
    LET field(name) == IF doc = JNull THEN Undef ELSE doc[name]
    IN  Evaluation(
            IF IsNumber(field("score")) THEN field("score") ELSE Whole(0),
            IF IsString(field("feedback"))
            THEN Str(<<"Partial evaluation: ">> \o field("feedback").s)
            ELSE Str(<<"Failed to parse full AI evaluation.">>),
            IF IsString(field("correct_parts")) THEN field("correct_parts") ELSE NA,
            IF IsString(field("improvements")) THEN field("improvements") ELSE NA)

\* a default object whose feedback quotes nothing of the raw text
defaultEvaluationUnquoted(why, shown) ==
    [score |-> Whole(0),
     feedback |-> [t |-> "string", s |-> <<"Automated evaluation failed: " \o why>>, shown |-> 0],
     correct_parts |-> Str(<<"N/A">>), improvements |-> Str(<<"N/A">>)]

\* the default object of the two catch blocks; `shown` is the number of
\* characters of the raw text the feedback quotes
defaultEvaluation(why, shown) ==
    Evaluation(Whole(0),
               [t |-> "string", s |-> <<"Automated evaluation failed: " \o why>>, shown |-> shown],
               NA, NA)

evaluateDescriptiveAnswer(v, out) ==
    IF out.kind = "throw"
    THEN defaultEvaluation("AI API Error", 0)
    ELSE IF out.doc = NotJson
    THEN defaultEvaluation("Could not parse AI response.", Min(out.len, ExcerptLen))
    ELSE IF ~wellTyped(out.doc)
    THEN partialEvaluation(out.doc)
    ELSE Evaluation(clampScore(out.doc.score), out.doc.feedback,
                    out.doc.correct_parts, out.doc.improvements)

(***************************************************************************)
(* POST /submit-quiz/:quizId.  multer has stored the uploaded file before  *)
(* the handler runs; the handler reads the quiz, extracts the file's text, *)
(* grades question by question, stores the result and, in its finally      *)
(* block, unlinks the file.  Reading the tables and unlinking succeed.     *)
(***************************************************************************)
\* a matcher that compares with the whole answer
userAnswerMatchesWholeAnswer(question, userAnswer) ==
    toUpperCase(Trim(userAnswer)) = toUpperCase(Trim(question.answer.s))

\* userAnswer.trim().toUpperCase() === question.answer.trim().toUpperCase().split('.')[0]
userAnswerMatchesMCQ(question, userAnswer) ==
    toUpperCase(Trim(userAnswer)) = BeforeFirstDot(toUpperCase(Trim(question.answer.s)))

\* userAnswer.trim().toLowerCase() === question.answer.trim().toLowerCase()
userAnswerMatchesFIB(question, userAnswer) ==
    toLowerCase(Trim(userAnswer)) = toLowerCase(Trim(question.answer.s))

\* question.answer.trim() raises a TypeError unless the answer is a string
matchThrows(question) == ~IsString(question.answer)

\* the result entry before grading
resultBase(q, answer, text) ==
    [question |-> q.question, type |-> q.type, correct_answer |-> q.answer,
     explanation |-> q.explanation, user_answer |-> Str(answer),
     extracted_pdf_text_used |->
        IF text # <<>> THEN Str(text) ELSE Str(<<"No text extracted or uploaded.">>),
     score |-> Whole(0), feedback |-> Str(<<"Not evaluated">>), correct_parts |-> NA,
     improvements |-> NA, is_correct |-> FALSE]

objectiveResult(q, answer, text) ==
    LET isCorrect == IF q.type = T("MCQ") THEN userAnswerMatchesMCQ(q, answer)
                     ELSE userAnswerMatchesFIB(q, answer)
    IN  [resultBase(q, answer, text) EXCEPT
            !.is_correct = isCorrect,
            !.score = IF isCorrect THEN Whole(MaxScore) ELSE Whole(0),
            !.feedback = IF isCorrect THEN Str(<<"Correct.">>) ELSE Str(<<"Incorrect.">>),
            !.correct_parts = IF isCorrect THEN q.answer ELSE NA,
            !.improvements = IF isCorrect THEN NA
                             ELSE Str(<<"The correct answer is ">> \o q.answer.s \o <<".">>)]

\* a check that finds an answer text in every submission
hasAnswerTextAlways(answer, text) == TRUE

\* currentUserAnswer.trim() || finalExtractedText.trim()
hasAnswerText(answer, text) == Trim(answer) # <<>> \/ Trim(text) # <<>>

descriptiveResult(q, answer, text, ev) ==
    IF hasAnswerText(answer, text)
    THEN [resultBase(q, answer, text) EXCEPT
            !.score = ev.score, !.feedback = ev.feedback,
            !.correct_parts = ev.correct_parts, !.improvements = ev.improvements]
    ELSE [resultBase(q, answer, text) EXCEPT
            !.feedback = Str(<<"No answer text provided.">>),
            !.improvements = Str(<<"Provide a written or typed answer.">>)]

\* an entry for an unknown type that is given the full points
unknownResultFullPoints(q, answer, text) ==
    [resultBase(q, answer, text) EXCEPT
        !.score = Whole(MaxScore),
        !.feedback = Str(<<"Skipped: Unknown question type">>)]

unknownResult(q, answer, text) ==
    [resultBase(q, answer, text) EXCEPT
        !.feedback = Str(<<"Skipped: Unknown question type">>)]

\* the answer posted for a question: userAnswers[`answer_${id}`] || ''
answerOf(userAnswers, q) == IF q.id \in DOMAIN userAnswers THEN userAnswers[q.id] ELSE <<>>

RECURSIVE gradeAll(_, _, _, _, _)
\* the grading loop over the questions from position i on: the entries it
\* pushes, the grader calls it makes, and whether a matcher raised
gradeAll(v, qs, i, userAnswers, in) ==
    IF i > Len(qs) THEN [threw |-> FALSE, results |-> <<>>, calls |-> <<>>]
    ELSE LET q == qs[i]
             answer == answerOf(userAnswers, q)
             rest == gradeAll(v, qs, i + 1, userAnswers, in)
             graded == hasAnswerText(answer, in.text)
             ev == evaluateDescriptiveAnswer(v, in.grader)
         IN  IF q.type \in {T("MCQ"), T("FIB")}
             THEN IF matchThrows(q)
                  THEN [threw |-> TRUE, results |-> <<>>, calls |-> <<>>]
                  ELSE [rest EXCEPT !.results = <<objectiveResult(q, answer, in.text)>> \o @]
             ELSE IF q.type = T("Descriptive")
             THEN [rest EXCEPT
                     !.results = <<descriptiveResult(q, answer, in.text, ev)>> \o @,
                     !.calls = IF graded
                               THEN <<[type |-> "evaluate", n |-> i, ok |-> in.grader.kind = "text",
                                       out |-> in.grader, result |-> ev]>> \o @
                               ELSE @]
             ELSE [rest EXCEPT !.results = <<unknownResult(q, answer, in.text)>> \o @]

RECURSIVE sumScores(_)
\* totalScore, in units of 1/Den
sumScores(rs) == IF rs = <<>> THEN 0 ELSE Head(rs).score.h + sumScores(Tail(rs))

\* a quotient kept exact
Ratio(num, den) == [num |-> num, den |-> den]

\* a percentage of one question's points, whatever the number of questions
overallPercentageOfOne(totalScore, maxPossibleScore) ==
    Ratio(totalScore * 100, Den * MaxScore)

\* maxPossibleScore ? (totalScore / maxPossibleScore) * 100 : 0
overallPercentage(totalScore, maxPossibleScore) ==
    IF maxPossibleScore # 0 THEN Ratio(totalScore * 100, Den * maxPossibleScore) ELSE Ratio(0, 1)

\* parseFloat(x.toFixed(2)), in hundredths
toFixed2(x) == (2 * 100 * x.num + x.den) \div (2 * x.den)

\* a query that leaves out the owner
submitRowOfAnyOwner(u, qid) == {i \in 1..Len(quizzes) : quizzes[i].id = qid}

\* the quiz row the handler's query finds: the caller's own quiz and, in the
\* hosted variant, joined with the caller's key row
submitRow(u, qid) ==
    IF variant = "hosted"
    THEN {i \in ownedQuiz(u, qid) : \E ak \in api_keys : ak.user_id = u}
    ELSE ownedQuiz(u, qid)

\* an exit path that leaves the file behind
unlinkNothing(files, path) == files

\* fs.promises.unlink(filePath)
unlink(files, path) == files \ {path}

\* the file multer stores for a request that carries one: a fresh name
uploadPath == Cardinality(uploads) + 1

\* req.file of a request without a file
NoFile == 0

\* the texts a client may post as an answer
AnswerTexts == {<<>>, <<" ", "c">>, <<"A">>}

\* What a submission carries and meets: the uploaded file, if any, whether
\* reading it or the OCR call raises, the text the OCR extracts from it (none
\* when it fails), the text posted in every answer field, and the grader's
\* answer to the calls of this submission.  Without a file every answer text
\* meets every answer of the grader; with a file one answer of the grader meets
\* a failing OCR and an OCR that finds no text and one that finds some.
SubmitInput(file, ocrFailed, text, answer, grader) ==
    [file |-> file, ocrFailed |-> ocrFailed, text |-> text, answer |-> answer, grader |-> grader]

\* an extraction that keeps a text although it raised
extractedTextKept(in) == in.text

\* error.message of what the handler's catch receives: the TypeError of
\* question.answer.trim(), or the error of the insert
MatcherError == "TypeError: question.answer.trim is not a function"
InsertError == "SQLITE_ERROR"

\* finalExtractedText after step 2: '' when there is no file and when the
\* extraction raised
extractedText(in) == IF in.file /\ ~in.ocrFailed THEN in.text ELSE <<>>

SubmitInputs ==
    {SubmitInput(FALSE, FALSE, <<>>, a, g) : a \in AnswerTexts, g \in EvalOutcomes}
    \cup {SubmitInput(TRUE, f[1], f[2], a, CHOOSE g \in EvalOutcomes :
                                     g.kind = "text" /\ g.doc # NotJson /\ g.doc.score = Whole(7)) :
            f \in {<<FALSE, <<>>>>, <<FALSE, <<"t">>>>, <<TRUE, <<"t">>>>},
            a \in {<<>>, <<" ", "c">>}}

\* the answer fields of a request for these questions
answerFields(qs, answer) == [id \in {qs[i].id : i \in 1..Len(qs)} |-> answer]

\* the submissions that differ for these questions: the grader's answer matters
\* only when a Descriptive question is graded
submissionsFor(qs, file) ==
    {in \in SubmitInputs :
        /\ in.file = file
        /\ \/ \E i \in 1..Len(qs) : qs[i].type = T("Descriptive") /\ hasAnswerText(in.answer, extractedText(in))
           \/ in.grader = Throws("network")
           \/ in.file}

SubmitQuiz ==
    \E u \in Users, qid \in QuizIds, file \in BOOLEAN :
        LET op == "submit-quiz"
            stored == IF file THEN uploads \cup {uploadPath} ELSE uploads
            cleaned == IF file THEN unlink(stored, uploadPath) ELSE stored
            request == [quizId |-> qid, file |-> IF file THEN uploadPath ELSE NoFile,
                        ocrFailed |-> FALSE]
            failed(why) == [score |-> 0, results |-> <<>>,
                            message |-> "An error occurred during evaluation.",
                            error |-> why]
        IN  /\ Len(results) < MaxResults
            /\ uploads' = cleaned
            /\ IF submitRow(u, qid) = {}
               THEN /\ last' = Response(op, u, request, <<>>, 404,
                                        Error("Quiz not found or unauthorized access."))
                    /\ UNCHANGED <<results, uuidCount>>
               ELSE \E row \in {quizzes[i] : i \in submitRow(u, qid)} :
                    \E in \in submissionsFor(row.questions, file) :
                    \E g \in {gradeAll(variant, row.questions, 1,
                                       answerFields(row.questions, in.answer),
                                       [in EXCEPT !.text = extractedText(in)])} :
                    \E arg \in {[request EXCEPT !.ocrFailed = in.ocrFailed]} :
                      IF g.threw
                      THEN /\ last' = Response(op, u, arg, g.calls, 500, failed(MatcherError))
                           /\ UNCHANGED <<results, uuidCount>>
                      ELSE \E saveErr \in BOOLEAN :
                             IF saveErr
                             THEN /\ last' = Response(op, u, arg, g.calls, 500, failed(InsertError))
                                  /\ UNCHANGED <<results, uuidCount>>
                             ELSE \E totalScore \in {sumScores(g.results)} :
                                    LET maxPossibleScore == Len(row.questions) * MaxScore
                                        percent == overallPercentage(totalScore, maxPossibleScore)
                                    IN  /\ results' = Append(results,
                                              [id |-> uuidv4(uuidCount + 1), user_id |-> u,
                                               quiz_id |-> qid, score |-> percent,
                                               feedback |-> g.results])
                                        /\ uuidCount' = uuidCount + 1
                                        /\ last' = Response(op, u, arg, g.calls, 200,
                                              [score |-> toFixed2(percent),
                                               totalScore |-> Num(totalScore),
                                               maxPossibleScore |-> maxPossibleScore,
                                               results |-> g.results,
                                               message |-> "Evaluation complete"])
            /\ UNCHANGED <<variant, keyRequests, api_keys, quizzes>>

(***************************************************************************)
(* The specification.                                                      *)
(***************************************************************************)
Init ==
    /\ variant \in {"hosted", "ollama"}
    /\ api_keys = {}
    /\ quizzes = <<>>
    /\ results = <<>>
    /\ uploads = {}
    /\ uuidCount = 0
    /\ last = NoRequest
    /\ keyRequests = {}

Next ==
    \/ SetApiKey
    \/ GenerateQuiz
    \/ DescriptiveQuiz
    \/ CombinedExam
    \/ GetQuiz
    \/ SubmitQuiz

Spec == Init /\ [][Next]_vars

(***************************************************************************)
(* The text functions on their own: each step applies one of them to a     *)
(* text and leaves the argument and the result in `last`.                  *)
(***************************************************************************)
\* an ordinary character, a space, a newline, a separator, a control character
CleanChars == {"a", " ", "LF", "NBSP", "SOH"}

\* the texts given to cleanText
CleanInputs == SeqsUpTo(CleanChars, MaxText)

Applied(op, arg, result) == Response(op, 0, arg, <<>>, 0, result)

CleanFieldText ==
    /\ \E s \in CleanInputs : last' = Applied("cleanText", Str(s), cleanText(Str(s)))
    /\ UNCHANGED <<variant, keyRequests, api_keys, quizzes, results, uploads, uuidCount>>

\* the numbers of questions asked of the provider
RequestedCounts == 1..(MaxQuestions + 1)

\* one call of generateQuizWithAI: the provider's answer, the number of questions
\* asked for, and what the function returns
GenerateQuestions ==
    /\ \E out \in GenOutcomes, numQuestions \in RequestedCounts :
          last' = Applied("generateQuizWithAI",
                          [out |-> out, numQuestions |-> numQuestions],
                          generated[variant, out, 0])
    /\ UNCHANGED <<variant, keyRequests, api_keys, quizzes, results, uploads, uuidCount>>

\* A raw response as a sequence of pieces: the three backticks, a language
\* tag, a space, a newline, the text of a JSON object.
Fence == "FENCE"
Tags == {"json", "js"}
ObjectText == "{}"

startsWith(text, prefix) ==
    Len(text) >= Len(prefix) /\ SubSeq(text, 1, Len(prefix)) = prefix

endsWith(text, suffix) ==
    Len(text) >= Len(suffix) /\ SubSeq(text, Len(text) - Len(suffix) + 1, Len(text)) = suffix

\* text.substring(n)
substring(text, n) == SubSeq(text, n + 1, Len(text))

\* the fence stripping at the head of both parsers
cleanedResponseText(rawResponseText) ==
    LET trimmed == Trim(rawResponseText)
        opened == IF startsWith(trimmed, <<Fence, "json">>)
                  THEN Trim(substring(trimmed, 2))
                  ELSE IF startsWith(trimmed, <<Fence>>)
                       THEN Trim(substring(trimmed, 1))
                       ELSE trimmed
    IN  IF endsWith(opened, <<Fence>>)
        THEN Trim(SubSeq(opened, 1, Len(opened) - 1))
        ELSE opened

\* the raw responses: an opening fence or none, a language tag or none, white
\* space, the object or nothing, and what follows it
RawResponses ==
    {open \o tag \o space \o core \o trail :
        open \in {<<>>, <<Fence>>, <<" ", Fence>>, <<Fence, Fence>>},
        tag \in {<<>>} \cup {<<g>> : g \in Tags},
        space \in {<<>>, <<" ">>, <<"LF">>},
        core \in {<<>>, <<ObjectText>>},
        trail \in {<<>>, <<Fence>>, <<"LF", Fence>>, <<Fence, " ">>, <<Fence, Fence>>}}

StripFences ==
    /\ \E raw \in RawResponses :
          last' = Applied("cleanedResponseText", raw, cleanedResponseText(raw))
    /\ UNCHANGED <<variant, keyRequests, api_keys, quizzes, results, uploads, uuidCount>>

\* the answers of MCQ questions: a letter, a dot and the option's text, with and
\* without spaces around them, and answers without a letter or without a dot
McqAnswers ==
    {<<"C", ".", " ", "a">>, <<" ", "c", ".", "a", " ">>, <<"C", " ", ".", "a">>,
     <<"c">>, <<"a", ".", "c", ".">>, <<".", "c">>, <<>>}

\* what a client may post as the answer to an MCQ question
McqUserAnswers == SeqsUpTo({"c", "C", "a", " ", "."}, MaxText - 1)

MatchMCQ ==
    /\ \E answer \in McqAnswers, userAnswer \in McqUserAnswers :
          last' = Applied("userAnswerMatchesMCQ",
                          [answer |-> answer, userAnswer |-> userAnswer],
                          userAnswerMatchesMCQ([answer |-> Str(answer)], userAnswer))
    /\ UNCHANGED <<variant, keyRequests, api_keys, quizzes, results, uploads, uuidCount>>

\* the grader's answers given to evaluateDescriptiveAnswer on its own: every
\* field present with its type, present with another type, or missing
GraderDocs ==
    {JNull}
    \cup {EvalDoc(score, feedback, correct_parts, improvements) :
            score \in {Undef, T("7"), Whole(7), Whole(MaxScore + 5)},
            feedback \in {Undef, Whole(1), T("f")},
            correct_parts \in {Undef, JNull, T("c")},
            improvements \in {Undef, T("i")}}

GraderOutcomes ==
    {Throws("network"), Text(LongLen, NotJson)} \cup {Text(ShortLen, d) : d \in GraderDocs}

EvaluateAnswer ==
    /\ \E out \in GraderOutcomes :
          last' = Applied("evaluateDescriptiveAnswer", out, evaluateDescriptiveAnswer(variant, out))
    /\ UNCHANGED <<variant, keyRequests, api_keys, quizzes, results, uploads, uuidCount>>

NextText ==
    \/ CleanFieldText
    \/ GenerateQuestions
    \/ StripFences
    \/ MatchMCQ
    \/ EvaluateAnswer

SpecText == Init /\ [][NextText]_vars

(***************************************************************************)
(* One provider call in time.  A handler issues the call and waits for it; *)
(* the call settles when the provider answers, when the connection fails,  *)
(* or when the client's own timeout expires; then the handler ends the     *)
(* request.  Nothing obliges the provider to answer.                       *)
(***************************************************************************)
\* the providers a request of this variant calls
ApiTypes(v) == IF v = "hosted" THEN {"OpenAI", "Gemini"} ELSE {"Ollama"}

\* the handlers that call the provider
CallingHandlers == {"generate-quiz", "descriptive-quiz", "combined-exam", "submit-quiz"}

\* Whether the client that makes the call has a timeout.  No call of the code
\* configures one: the Ollama calls put `timeout: 120000` into the request body,
\* the second argument of axios.post, and axios without a configured timeout
\* waits without limit; new OpenAI({apiKey}) keeps the client's default timeout
\* and the Gemini client has none.
clientTimeout(apiType) == apiType = "OpenAI"

Pending == "pending"
ProviderCall(phase) == [type |-> "provider", phase |-> phase]
NoBody == [error |-> "", shown |-> 0]

\* no request is open
Idle == last.op = "none" \/ last.status # 0

\* the open request waits for its call
Waiting == ~Idle /\ last.calls = <<ProviderCall(Pending)>>

BeginRequest ==
    /\ Idle
    /\ \E u \in Users, op \in CallingHandlers, apiType \in ApiTypes(variant) :
          last' = Response(op, u, apiType, <<ProviderCall(Pending)>>, 0, NoBody)
    /\ UNCHANGED <<variant, keyRequests, api_keys, quizzes, results, uploads, uuidCount>>

settle(phase) ==
    /\ Waiting
    /\ last' = [last EXCEPT !.calls = <<ProviderCall(phase)>>]
    /\ UNCHANGED <<variant, keyRequests, api_keys, quizzes, results, uploads, uuidCount>>

ProviderAnswers == settle("answered")

ProviderFails == settle("failed")

TimeoutExpires == clientTimeout(last.arg) /\ settle("timeout")

\* the handler's end: a generation handler answers 500 when its call failed, the
\* submit handler grades with the default evaluation and answers 200
EndRequest ==
    /\ ~Idle /\ ~Waiting
    /\ LET answered == last.calls[1].phase = "answered"
       IN  last' = IF last.op = "submit-quiz"
                   THEN [last EXCEPT !.status = 200,
                                     !.body = IF answered THEN NoBody
                                              ELSE [error |-> defaultEvaluation("AI API Error", 0).feedback.s[1],
                                                    shown |-> 0]]
                   ELSE IF answered THEN [last EXCEPT !.status = 200]
                   ELSE [last EXCEPT !.status = 500, !.body = ErrorShowing("ApiError", 0)]
    /\ UNCHANGED <<variant, keyRequests, api_keys, quizzes, results, uploads, uuidCount>>

NextCall ==
    \/ BeginRequest
    \/ ProviderAnswers
    \/ ProviderFails
    \/ TimeoutExpires
    \/ EndRequest

\* the client's timer and the handler run on; the provider need not
SpecCall == Init /\ [][NextCall]_vars /\ WF_vars(TimeoutExpires) /\ WF_vars(EndRequest)

(***************************************************************************)
(* POST /set-api-key among concurrent requests.  The handler validates,    *)
(* encrypts and queues its one statement with db.run; the database runs    *)
(* the queued statements one at a time, each as a whole, in an order of    *)
(* its own; the statement's callback sends the response.                   *)
(***************************************************************************)
\* values of <<apiKey, apiType>> that concurrent clients may send
ConcurrentKeyInputs ==
    {<<"", "Gemini">>, <<"k1", "Other">>, <<"k1", "Gemini">>, <<"k2", "OpenAI">>}

KeyRequest(id, u, key, type, phase) ==
    [id |-> id, user_id |-> u, key |-> key, type |-> type, phase |-> phase]

\* the request with another phase
moved(r, phase) == (keyRequests \ {r}) \cup {[r EXCEPT !.phase = phase]}

\* the handler up to db.run
ReceiveSetApiKey ==
    /\ variant = "hosted"
    /\ Cardinality(keyRequests) < MaxKeyRequests
    /\ \E u \in Users, input \in ConcurrentKeyInputs :
          LET key == input[1]
              type == input[2]
          IN  IF key = ""
              THEN /\ last' = Response("set-api-key", u, input, <<>>, 400,
                                       Error("API key is required."))
                   /\ UNCHANGED keyRequests
              ELSE IF type \notin {"Gemini", "OpenAI"}
              THEN /\ last' = Response("set-api-key", u, input, <<>>, 400,
                                       Error("Valid API type (Gemini or OpenAI) is required."))
                   /\ UNCHANGED keyRequests
              ELSE /\ keyRequests' = keyRequests \cup
                          {KeyRequest(Cardinality(keyRequests) + 1, u, key, type, "queued")}
                   /\ UNCHANGED last
    /\ UNCHANGED <<variant, api_keys, quizzes, results, uploads, uuidCount>>

\* the database runs one queued statement, or fails to
ExecuteStatement ==
    /\ \E r \in keyRequests, err \in BOOLEAN :
          /\ r.phase = "queued"
          /\ IF err
             THEN keyRequests' = moved(r, "erred") /\ UNCHANGED api_keys
             ELSE /\ keyRequests' = moved(r, "executed")
                  /\ api_keys' = upsertKey(r.user_id, r.key, r.type)
    /\ UNCHANGED <<variant, quizzes, results, uploads, uuidCount, last>>

\* the callback of db.run sends the response
RunCallback ==
    /\ \E r \in keyRequests :
          /\ r.phase \in {"executed", "erred"}
          /\ keyRequests' = moved(r, IF r.phase = "executed" THEN "done" ELSE "failed")
          /\ last' = IF r.phase = "executed"
                     THEN Response("set-api-key", r.user_id, <<r.key, r.type>>, <<>>, 200, Error(""))
                     ELSE Response("set-api-key", r.user_id, <<r.key, r.type>>, <<>>, 500,
                                   Error("Failed to save API key."))
    /\ UNCHANGED <<variant, api_keys, quizzes, results, uploads, uuidCount>>

NextKeys ==
    \/ ReceiveSetApiKey
    \/ ExecuteStatement
    \/ RunCallback

SpecKeys == Init /\ [][NextKeys]_vars

(***************************************************************************)
(* The claims.                                                             *)
(***************************************************************************)
\* the stored quiz with this id
quizOf(qid) == quizzes[CHOOSE i \in 1..Len(quizzes) : quizzes[i].id = qid]

IsGet == last.op = "get-quiz"
IsSubmit == last.op = "submit-quiz"

\* C1: the quiz that GET /quiz/:quizId returns to its owner has no answer and
\* no explanation on any of its questions.
C1_RedactedQuizHasNoAnswers ==
    (IsGet /\ last.status = 200) =>
        \A i \in 1..Len(last.body.questions) :
            /\ last.body.questions[i].answer = Undef
            /\ last.body.questions[i].explanation = Undef

\* an owner has fetched a quiz whose stored questions carry an answer and an explanation
C1_Witness ==
    /\ IsGet /\ last.status = 200
    /\ \E i \in 1..Len(quizzes) :
        /\ quizzes[i].id = last.arg /\ quizzes[i].user_id = last.user
        /\ \E j \in 1..Len(quizzes[i].questions) :
            /\ IsString(quizzes[i].questions[j].answer)
            /\ IsString(quizzes[i].questions[j].explanation)

\* C2: a user who asks for a quiz id that he does not own gets the one 404
\* response, status and body, whether another user owns a quiz with that id or
\* no quiz has it.
C2_OwnershipIsolation ==
    (IsGet /\ ~\E i \in 1..Len(quizzes) :
                  quizzes[i].id = last.arg /\ quizzes[i].user_id = last.user)
        => (last.status = 404 /\ last.body = NotFound)

\* a user has asked for the quiz of another user
C2_Witness ==
    /\ IsGet /\ last.status = 404
    /\ \E i \in 1..Len(quizzes) : quizzes[i].id = last.arg /\ quizzes[i].user_id # last.user

\* C3: every question of a persisted quiz has a non-empty string id and no two
\* questions of one quiz share an id.
C3_QuestionIdsUnique ==
    \A k \in 1..Len(quizzes) :
        LET qs == quizzes[k].questions
        IN  /\ \A i \in 1..Len(qs) : IsString(qs[i].id) /\ qs[i].id.s # <<>>
            /\ \A i, j \in 1..Len(qs) : i # j => qs[i].id # qs[j].id

\* the grader calls of the last submission
evaluations == IF IsSubmit THEN {last.calls[i] : i \in 1..Len(last.calls)} ELSE {}

parsedJson(out) == out.kind = "text" /\ out.doc # NotJson

\* C4: whenever the grader's text parses as JSON, the score that
\* evaluateDescriptiveAnswer returns is an integer in 0..10.
C4_ScoreIsIntegerInRange ==
    \A c \in evaluations :
        parsedJson(c.out) =>
            /\ c.result.score.h % Den = 0
            /\ c.result.score.h \div Den \in 0..MaxScore

\* C5: in a completed submission every per-question score is in 0..10 and the
\* persisted overall percentage is in 0..100.
C5_ScoresInRange ==
    /\ (IsSubmit /\ last.status = 200) =>
          \A i \in 1..Len(last.body.results) :
              /\ 0 <= last.body.results[i].score.h
              /\ last.body.results[i].score.h <= MaxScore * Den
    /\ \A k \in 1..Len(results) :
          /\ 0 <= results[k].score.num
          /\ results[k].score.num <= 100 * results[k].score.den

\* C6: when the grader's call fails or its text is no JSON, evaluateDescriptiveAnswer
\* returns score 0, correct_parts "N/A", improvements "N/A" and a feedback text,
\* which for text that is no JSON quotes the first characters of the raw text.
C6_DefaultEvaluation ==
    \A c \in evaluations :
        ~parsedJson(c.out) =>
            /\ c.result.score = Whole(0)
            /\ c.result.correct_parts = Str(<<"N/A">>)
            /\ c.result.improvements = Str(<<"N/A">>)
            /\ IsString(c.result.feedback) /\ c.result.feedback.s # <<>>
            /\ c.out.kind = "text" =>
                  /\ c.result.feedback.shown = Min(c.out.len, ExcerptLen)
                  /\ c.result.feedback.shown > 0

\* a submission whose grader answered with text that is no JSON has completed
C6_Witness ==
    /\ IsSubmit /\ last.status = 200
    /\ \E c \in evaluations : c.out.kind = "text" /\ c.out.doc = NotJson
    /\ \E i \in 1..Len(last.body.results) :
          last.body.results[i].feedback.s = <<"Automated evaluation failed: Could not parse AI response.">>

\* C7: submit answers 404 exactly when the caller owns no quiz with the id.
C7_SubmitNotFoundIffNotOwned ==
    IsSubmit =>
        (last.status = 404 <=>
            ~\E i \in 1..Len(quizzes) :
                quizzes[i].id = last.arg.quizId /\ quizzes[i].user_id = last.user)

\* in the hosted variant an owner has submitted to their quiz and got the graded result
C7_Witness ==
    /\ variant = "hosted" /\ IsSubmit /\ last.status = 200
    /\ quizOf(last.arg.quizId).user_id = last.user

\* C8: the file uploaded with a submission is gone from the upload directory
\* when the request has ended, whatever its response.
C8_UploadDeleted ==
    (IsSubmit /\ last.arg.file # NoFile) => last.arg.file \notin uploads

\* a submission with a file has ended in the 500 response, a matcher having raised
C8_Witness ==
    /\ IsSubmit /\ last.arg.file # NoFile /\ last.status = 500
    /\ \E j \in 1..Len(quizOf(last.arg.quizId).questions) :
          matchThrows(quizOf(last.arg.quizId).questions[j])

GenerationFailedBody == Error("AI failed to generate questions for the combined exam.")

\* C9: a combined request that issued sub-calls fails with the generation
\* error, and stores nothing, exactly when every sub-call failed; when a
\* sub-call delivered questions and the insert did not fail, it answers 200
\* and stores one quiz.
C9_PartialSuccess ==
    [][(last'.op = "combined-exam" /\ last'.calls # <<>>) =>
        LET allFailed == \A i \in 1..Len(last'.calls) : ~last'.calls[i].ok
        IN  /\ allFailed <=> (last'.status = 500 /\ last'.body = GenerationFailedBody)
            /\ allFailed => quizzes' = quizzes
            /\ (~allFailed /\ last'.body # Error("Failed to save generated combined exam."))
                  => /\ last'.status = 200
                     /\ Len(quizzes') = Len(quizzes) + 1
                     /\ quizzes'[Len(quizzes')].id = last'.body.quizId]_vars

\* a combined request has stored a quiz although its first sub-call failed, and
\* another although its last one did
C9_Witness ==
    /\ last.op = "combined-exam" /\ last.status = 200 /\ Len(last.calls) = 3
    /\ ~last.calls[1].ok /\ last.calls[2].ok /\ ~last.calls[3].ok

\* the count is a whole number from lo to hi
countIn(v, lo, hi) == IsNumber(v) /\ v.h % Den = 0 /\ v.h \div Den \in lo..hi

\* C10: a single-type request whose num_questions is not in 1..20, and a
\* combined request whose total is <= 0 or > 30, gets the 400 response, issues
\* no provider call and stores no quiz (seen on the requests of a caller who
\* lacks nothing else that the handler asks for before it calls the provider).
C10_InvalidCountRejected ==
    LET rejected == last.status = 400 /\ last.calls = <<>> /\ "quizId" \notin DOMAIN last.body
        total == last.arg[1].h + last.arg[2].h + last.arg[3].h
    IN  ~keyMissing(last.user) =>
        /\ (last.op \in {"generate-quiz", "descriptive-quiz"}
              /\ ~countIn(last.arg[2], 1, MaxSingle))
            => rejected
        /\ (last.op = "combined-exam" /\ (\A i \in 1..3 : IsNumber(last.arg[i]))
              /\ (total <= 0 \/ total > MaxCombined * Den))
            => rejected

IsSingleGeneration == last.op \in {"generate-quiz", "descriptive-quiz"}

\* C11: a single-type generation request that fails (at the provider call, the
\* JSON parse, the shape validation or anywhere else) leaves the quizzes table
\* as it was and issues no quiz id; one that succeeds appends exactly one row,
\* the one whose id it returns, and only after its provider call succeeded.
C11_InsertOnlyAfterSuccess ==
    [][last'.op \in {"generate-quiz", "descriptive-quiz"} =>
        IF last'.status = 200
        THEN /\ Len(quizzes') = Len(quizzes) + 1
             /\ SubSeq(quizzes', 1, Len(quizzes)) = quizzes
             /\ quizzes'[Len(quizzes')].id = last'.body.quizId
             /\ quizzes'[Len(quizzes')].questions # <<>>
             /\ Len(last'.calls) = 1 /\ last'.calls[1].ok
        ELSE /\ quizzes' = quizzes
             /\ "quizId" \notin DOMAIN last'.body]_vars

\* a generation has failed at the shape validation and the table is still empty
C11_Witness ==
    /\ IsSingleGeneration /\ last.status = 500
    /\ Len(last.calls) = 1 /\ ~last.calls[1].ok
    /\ last.body.error = "Malformed"
    /\ quizzes = <<>>

\* C12: the error of a generation that failed on malformed provider output
\* quotes at most the first 100 characters of the raw text.
C12_ErrorQuotesExcerptOnly ==
    (IsSingleGeneration /\ last.status = 500 /\ Len(last.calls) = 1 /\ ~last.calls[1].ok)
        => last.body.shown <= ExcerptLen

\* C13: cleanText is idempotent: cleaning a cleaned text changes nothing.
C13_CleanTextIdempotent ==
    last.op = "cleanText" => cleanText(last.body) = last.body

C15_RedactedOptionsIsArray ==
    (IsGet /\ last.status = 200) =>
        \A i \in 1..Len(last.body.questions) :
            /\ IsArray(last.body.questions[i].options)
            /\ quizOf(last.arg).questions[i].options \in {Undef, JNull}
                  => last.body.questions[i].options = Arr(<<>>)

\* generateQuizWithAI has been applied to a text that the provider returned
IsParse == last.op = "generateQuizWithAI" /\ last.arg.out.kind = "text"

\* the three cases: no JSON, no `questions` array, an empty `questions` array
malformedCase(doc) ==
    \/ doc = NotJson
    \/ ~(doc.t = "object" /\ IsArray(doc.questions))
    \/ doc.questions.a = <<>>

\* an entry of the `questions` array is null
nullEntry(doc) ==
    /\ doc.t = "object" /\ IsArray(doc.questions)
    /\ \E i \in 1..Len(doc.questions.a) : doc.questions.a[i] = JNull

C17_ReturnedCountKept ==
    (IsParse /\ ~malformedCase(last.arg.out.doc) /\ ~nullEntry(last.arg.out.doc)) =>
        LET returned == last.arg.out.doc.questions.a
            kept == last.body.questions
        IN  /\ last.body.ok
            /\ Len(kept) = Len(returned)
            /\ \A i \in 1..Len(returned) :
                  /\ kept[i].type = returned[i].type
                  /\ kept[i].question = cleanText(returned[i].question)
                  /\ kept[i].answer = cleanText(returned[i].answer)

\* the provider was asked for one question and returned two, and both are kept
C17_Witness ==
    /\ IsParse /\ last.body.ok
    /\ last.arg.numQuestions = 1
    /\ Len(last.arg.out.doc.questions.a) = 2
    /\ Len(last.body.questions) = 2

\* a JSON object between an opening fence, with a language tag or without one,
\* and a closing fence
fencedObject(text) ==
    LET t == Trim(text)
    IN  /\ Len(t) >= 3 /\ t[1] = Fence /\ t[Len(t)] = Fence
        /\ LET inner == SubSeq(t, 2, Len(t) - 1)
               body == IF inner[1] \in Tags /\ Len(inner) >= 2 /\ IsWhitespace(inner[2])
                       THEN Tail(inner) ELSE inner
           IN  Trim(body) = <<ObjectText>>

\* C18: the fence stripping returns a trimmed text, the trimmed input when that
\* has no fence at either end, and for a JSON object between fences, whatever
\* language tag the opening fence has or none, the bare object text.
C18_FencesStripped ==
    last.op = "cleanedResponseText" =>
        LET t == Trim(last.arg)
        IN  /\ Trim(last.body) = last.body
            /\ (~startsWith(t, <<Fence>>) /\ ~endsWith(t, <<Fence>>)) => last.body = t
            /\ fencedObject(last.arg) => last.body = <<ObjectText>>

\* C19: userAnswerMatchesMCQ is true exactly when the trimmed, upper-cased user
\* answer is what the trimmed, upper-cased answer of the question has before its
\* first '.' (the whole of it when it has none); with the answer "C. a" the
\* user answer "c" matches and "a" does not.
C19_McqMatchesLeadingToken ==
    last.op = "userAnswerMatchesMCQ" =>
        LET given == toUpperCase(Trim(last.arg.userAnswer))
            answer == toUpperCase(Trim(last.arg.answer))
            isLeadingToken ==
                /\ Len(given) <= Len(answer)
                /\ \A i \in 1..Len(given) : given[i] = answer[i] /\ given[i] # "."
                /\ Len(given) < Len(answer) => answer[Len(given) + 1] = "."
        IN  /\ last.body <=> isLeadingToken
            /\ last.arg.answer = <<"C", ".", " ", "a">> =>
                  /\ last.arg.userAnswer = <<"c">> => last.body
                  /\ last.arg.userAnswer = <<"a">> => ~last.body

\* the answer is "C. a" and the user answer " c" has matched
C19_Witness ==
    /\ last.op = "userAnswerMatchesMCQ"
    /\ last.arg.answer = <<"C", ".", " ", "a">>
    /\ last.arg.userAnswer = <<" ", "c">>
    /\ last.body

knownTypes == {T("MCQ"), T("FIB"), T("Descriptive")}

\* C20: the results of a completed submission have one entry per question of
\* the stored quiz, in the stored order; the entry of a question of an unknown
\* type has score 0, is_correct false and a feedback text, and the question
\* counts in the maximum score.
C20_OneResultPerQuestion ==
    (IsSubmit /\ last.status = 200) =>
        LET qs == quizOf(last.arg.quizId).questions
            rs == last.body.results
        IN  /\ Len(rs) = Len(qs)
            /\ results[Len(results)].feedback = rs
            /\ last.body.maxPossibleScore = MaxScore * Len(qs)
            /\ \A i \in 1..Len(qs) :
                  /\ rs[i].question = qs[i].question
                  /\ rs[i].type = qs[i].type
                  /\ rs[i].correct_answer = qs[i].answer
                  /\ qs[i].type \notin knownTypes =>
                        /\ rs[i].score = Whole(0)
                        /\ ~rs[i].is_correct
                        /\ IsString(rs[i].feedback)
                        /\ rs[i].feedback.s = <<"Skipped: Unknown question type">>

\* a quiz of an MCQ question and a question of an unknown type has been graded
C20_Witness ==
    /\ IsSubmit /\ last.status = 200
    /\ Len(last.body.results) = 2
    /\ last.body.results[1].type = T("MCQ")
    /\ last.body.results[2].type = T("Essay")
    /\ last.body.results[2].score = Whole(0)
    /\ last.body.maxPossibleScore = 2 * MaxScore

\* the grader's text parsed as JSON and a field of it is missing or has not its type
IsPartial ==
    /\ last.op = "evaluateDescriptiveAnswer"
    /\ parsedJson(last.arg) /\ ~wellTyped(last.arg.doc)

\* the field of the parsed text, undefined when the text is `null`
graderField(name) == IF last.arg.doc = JNull THEN Undef ELSE last.arg.doc[name]

\* C21: when the grader's JSON parses and a field is missing or wrong-typed, the
\* result has "N/A" for each of feedback, correct_parts and improvements that
\* is missing or no string, and 0 for a score that is missing or no number.
C21_PartialDefaults ==
    IsPartial =>
        /\ ~IsNumber(graderField("score")) => last.body.score = Whole(0)
        /\ ~IsString(graderField("feedback")) => last.body.feedback = NA
        /\ ~IsString(graderField("correct_parts")) => last.body.correct_parts = NA
        /\ ~IsString(graderField("improvements")) => last.body.improvements = NA

\* C21, amended: a missing or wrong-typed correct_parts or improvements is
\* "N/A", a missing or wrong-typed score is 0, and a missing or wrong-typed
\* feedback is the text "Failed to parse full AI evaluation."
C21_PartialDefaultsFeedbackText ==
    IsPartial =>
        /\ ~IsNumber(graderField("score")) => last.body.score = Whole(0)
        /\ ~IsString(graderField("feedback")) =>
              last.body.feedback = Str(<<"Failed to parse full AI evaluation.">>)
        /\ ~IsString(graderField("correct_parts")) => last.body.correct_parts = NA
        /\ ~IsString(graderField("improvements")) => last.body.improvements = NA

\* the grader's object has a string as score, no correct_parts and a feedback
C21_Witness ==
    /\ IsPartial /\ last.arg.doc # JNull
    /\ last.arg.doc.score = T("7") /\ last.arg.doc.correct_parts = Undef
    /\ IsString(last.arg.doc.feedback)
    /\ last.body.score = Whole(0) /\ last.body.correct_parts = NA

RECURSIVE returnedBatches(_)
\* the questions the provider returned to the sub-calls, batch after batch
returnedBatches(calls) ==
    IF calls = <<>> THEN <<>> ELSE Head(calls).returned \o returnedBatches(Tail(calls))

\* C22: the questions of a stored combined quiz are the batches of the
\* successful sub-calls one after the other, the sub-calls in the order MCQ,
\* FIB, Descriptive and each batch in the order the provider returned it.
C22_CombinedIsConcatenation ==
    (last.op = "combined-exam" /\ last.status = 200) =>
        LET kept == quizOf(last.body.quizId).questions
            returned == returnedBatches(last.calls)
            rank(type) == CASE type = "MCQ" -> 1 [] type = "FIB" -> 2 [] OTHER -> 3
        IN  /\ \A i, j \in 1..Len(last.calls) :
                  i < j => rank(last.calls[i].type) < rank(last.calls[j].type)
            /\ Len(kept) = Len(returned)
            /\ \A i \in 1..Len(returned) :
                  /\ kept[i].type = returned[i].type
                  /\ kept[i].question = cleanText(returned[i].question)
                  /\ kept[i].answer = cleanText(returned[i].answer)

\* C23: a request that waits for a provider call does not wait forever: it
\* gets its response in the end, whether or not the provider answers.
C23_CallNeverHangs == Waiting ~> (last.status # 0)

\* C24: a failing text extraction does not abort the submission: the
\* submission is graded with an empty reference text and, answering 200, its
\* result is stored; when it answers 500 the error is not the extraction's
\* but that of a matcher or of the insert.
C24_ExtractionFailureTolerated ==
    (IsSubmit /\ last.arg.ocrFailed) =>
        \/ /\ last.status = 200
           /\ Len(results) > 0
           /\ results[Len(results)].quiz_id = last.arg.quizId
           /\ results[Len(results)].feedback = last.body.results
           /\ Len(last.body.results) = Len(quizOf(last.arg.quizId).questions)
           /\ \A i \in 1..Len(last.body.results) :
                 last.body.results[i].extracted_pdf_text_used =
                     Str(<<"No text extracted or uploaded.">>)
        \/ /\ last.status = 500
           /\ last.body.error \in {MatcherError, InsertError}

\* the extraction of an uploaded file raised and the quiz has been graded
C24_Witness ==
    /\ IsSubmit /\ last.arg.ocrFailed /\ last.arg.file # NoFile
    /\ last.status = 200
    /\ Len(results) = 1

keyRequestsOf(u, phases) == {r \in keyRequests : r.user_id = u /\ r.phase \in phases}

\* C26: whatever the interleaving of set-api-key requests, the table holds at
\* most one row per user; and once every request of a user has got its
\* response, the user's row is the key and type of one of the requests that
\* got 200, and there is a row when there is such a request.
C26_OneKeyRowPerUser ==
    \A u \in Users :
        LET rows == {r \in api_keys : r.user_id = u}
            completed == keyRequestsOf(u, {"done"})
        IN  /\ Cardinality(rows) <= 1
            /\ keyRequestsOf(u, {"queued", "executed", "erred"}) = {} =>
                  /\ \A row \in rows :
                        \E r \in completed :
                            row.encrypted_key = r.key /\ row.api_type = r.type
                  /\ completed # {} => rows # {}

\* two requests of one user with different keys have both got 200, and the row
\* is the key of the one that arrived first: its statement ran last
C26_Witness ==
    \E u \in Users :
        \E r1, r2 \in keyRequestsOf(u, {"done"}) :
            /\ r1.id < r2.id /\ r1.key # r2.key
            /\ keyRequestsOf(u, {"queued", "executed", "erred"}) = {}
            /\ \E row \in api_keys : row.user_id = u /\ row.encrypted_key = r1.key

\* C27: every question of a stored quiz has an options list exactly when its
\* type is MCQ.
C27_OptionsIffMcq ==
    \A k \in 1..Len(quizzes) :
        \A i \in 1..Len(quizzes[k].questions) :
            IsArray(quizzes[k].questions[i].options) <=> quizzes[k].questions[i].type = T("MCQ")

\* C28: a submission by the owner of a stored quiz ends with the graded 200
\* result: grading an MCQ or FIB question never raises, so the 500 response
\* is left to a failing insert of the result.
C28_ObjectiveGradingNeverThrows ==
    (IsSubmit /\ last.status # 404) =>
        \/ last.status = 200 /\ Len(last.body.results) = Len(quizOf(last.arg.quizId).questions)
        \/ last.status = 500 /\ last.body.error = InsertError

\* the grader calls of the last submission made for the question at position i
callsFor(i) == {k \in 1..Len(last.calls) : last.calls[k].n = i}

\* C29: a submission calls the provider for Descriptive questions only and at
\* most once for each; in a completed submission a Descriptive question whose
\* typed answer is empty after trimming, the extracted text being empty too,
\* causes no call and has score 0 and the feedback "No answer text provided.",
\* and every other Descriptive question causes exactly one call.
C29_OneCallPerAnsweredDescriptive ==
    (IsSubmit /\ last.status # 404) =>
        LET qs == quizOf(last.arg.quizId).questions
            rs == last.body.results
            noText == Str(<<"No text extracted or uploaded.">>)
            unanswered(i) ==
                /\ Trim(rs[i].user_answer.s) = <<>>
                /\ \/ rs[i].extracted_pdf_text_used = noText
                   \/ Trim(rs[i].extracted_pdf_text_used.s) = <<>>
        IN  /\ \A k \in 1..Len(last.calls) :
                  /\ last.calls[k].type = "evaluate"
                  /\ last.calls[k].n \in 1..Len(qs)
                  /\ qs[last.calls[k].n].type = T("Descriptive")
            /\ \A i \in 1..Len(qs) : Cardinality(callsFor(i)) <= 1
            /\ last.status = 200 =>
                  \A i \in 1..Len(qs) :
                      qs[i].type = T("Descriptive") =>
                          IF unanswered(i)
                          THEN /\ callsFor(i) = {}
                               /\ rs[i].score = Whole(0)
                               /\ rs[i].feedback = Str(<<"No answer text provided.">>)
                          ELSE Cardinality(callsFor(i)) = 1

\* a Descriptive question without any answer text has been graded without a call
C29_Witness ==
    /\ IsSubmit /\ last.status = 200 /\ last.calls = <<>>
    /\ \E i \in 1..Len(last.body.results) :
          /\ last.body.results[i].type = T("Descriptive")
          /\ last.body.results[i].feedback = Str(<<"No answer text provided.">>)

\* C30: every question of a stored quiz has a type among MCQ, FIB and
\* Descriptive, every stored quiz has a quiz_type among MCQ, FIB, Descriptive
\* and Combined, and a quiz that /generate-quiz stored for one type (the only
\* handler storing the quiz_type MCQ or FIB) holds questions of that type only.
C30_TypesAreKnown ==
    \A k \in 1..Len(quizzes) :
        LET row == quizzes[k]
        IN  /\ row.quiz_type \in {"MCQ", "FIB", "Descriptive", "Combined"}
            /\ \A i \in 1..Len(row.questions) :
                  /\ row.questions[i].type \in {T("MCQ"), T("FIB"), T("Descriptive")}
                  /\ row.quiz_type \in {"MCQ", "FIB"} =>
                        row.questions[i].type = T(row.quiz_type)

====
